---- MODULE Spec2Model ----
(***************************************************************************)
(* A model of probnmn's ProgramPrior (src/probnmn/models/program_prior.py) *)
(* and of the elementary neural modules                                    *)
(* (src/probnmn/modules/nmn_modules.py).                                   *)
(*                                                                         *)
(* Tensors are functions over index ranges.  A batch of token rows is a    *)
(* sequence of sequences: tensor position p (0-based, as in the Python     *)
(* code) is sequence index p + 1.  Floating point values are modelled by   *)
(* integers: losses are fixed-point numbers in units of 1 / LossScale,     *)
(* values behind a sigmoid are kept as the pre-activation integer tagged   *)
(* by the activation.                                                      *)
(***************************************************************************)
EXTENDS Integers, Sequences, FiniteSets, TLC

VARIABLES
    \* ---- ProgramPrior ----
    pc,              \* the last call on the ProgramPrior object: "ready" (none yet), "forward", "get_metrics"
    program_tokens,  \* argument of that call, if a forward: batch of right-padded rows
    theta,           \* abstract value of the trainable parameters as initialised
    rng,             \* abstract state of torch's random generator
    training,        \* nn.Module.training
    frame,           \* locals of that call at its return, if a forward
    output,          \* dict returned by that call, if a forward
    log2_total,      \* self._log2_perplexity._total_value (fixed point, 1 / LossScale)
    log2_count,      \* self._log2_perplexity._count
    metrics,         \* dict returned by that call, if a get_metrics
    prev_op,         \* history: the operation before the last one
    eval_total,      \* history: sum of the batch-mean losses of the evaluation-mode
    eval_count,      \* history: ... forward calls since the last get_metrics (and their number)
    read_total,      \* history: eval_total and eval_count as the last call found
    read_count,      \* history: ... them, if it was a get_metrics (0 otherwise)
    \* ---- weight tying (ProgramPrior.__init__) ----
    tensors,         \* the weight tensors allocated by __init__, by identity
    embedder_weight, \* identity of the tensor that is embedder_inner.weight
    output_weight,   \* identity of the tensor that is self._output_layer.weight
    last_write,      \* the last in-place update: through which of the two, where, what
    updates,         \* number of in-place updates so far
    \* ---- elementary modules ----
    module,          \* the module that ran last ("none" before any)
    wseed,           \* abstract value of the convolution weights and biases
    given,           \* the arguments as the caller passed them
    given_alt,       \* a second call's arguments, differing in one batch element
    args,            \* the argument tensors after the call
    result,          \* what forward returned (or that it raised), and its locals
    result_alt       \* the same for the second call

priorVars == <<pc, program_tokens, theta, rng, training, frame, output,
               log2_total, log2_count, metrics, prev_op, eval_total, eval_count,
               read_total, read_count>>

tyingVars == <<tensors, embedder_weight, output_weight, last_write, updates>>

moduleVars == <<module, wseed, given, given_alt, args, result, result_alt>>

vars == <<priorVars, tyingVars, moduleVars>>

\* ------------------------------------------------------------------ bounds
MaxBatch == 2
MaxSeqLen == 2
VocabSize == 5
NumTheta == 2
NumRng == 2
LogitLevels == 3
MaxEvalCalls == 2
InputSize == 1
WeightLevels == 2
MaxUpdates == 2
Dim == 1
MaxHeight == 2
MaxWidth == 2
AttnScale == 1
NumFeatureMaps == 2
NumWeightSeeds == 2

\* ------------------------------------------------------- small helpers
RECURSIVE SumSeq(_)
SumSeq(s) == IF s = <<>> THEN 0 ELSE s[1] + SumSeq(Tail(s))

RECURSIVE Factorial(_)
Factorial(n) == IF n <= 1 THEN 1 ELSE n * Factorial(n - 1)

RECURSIVE Pow2(_)
Pow2(n) == IF n <= 0 THEN 1 ELSE 2 * Pow2(n - 1)

MaxOf(S) == CHOOSE x \in S : \A y \in S : y <= x

\* The k-th smallest element (k = 0, 1, ...) of a finite set of integers.
Nth(S, k) == CHOOSE v \in S : Cardinality({u \in S : u < v}) = k

\* x[:, 1:] and x[:, :-1] on one row.
DropFirst(row) == SubSeq(row, 2, Len(row))
DropLast(row) == SubSeq(row, 1, Len(row) - 1)

\* Losses are fixed-point numbers: the integer k stands for k / LossScale.  The
\* scale is divisible by every weight count 1 .. MaxSeqLen + 1 and every batch
\* size, so the divisions of the loss and of the batch mean are exact.
LossScale == Factorial(MaxSeqLen + 1) * Factorial(MaxBatch)

\* ------------------------------------------------------------- vocabulary
StartIndex == 2
EndIndex == 3
PadIndex == 0
UnkIndex == 1

Vocab == 0 .. VocabSize - 1
\* Program tokens proper: every index that is not one of the four reserved ones.
RealTokens == Vocab \ {StartIndex, EndIndex, PadIndex, UnkIndex}

\* ------------------------------------------------------------------ inputs
PadTo(real, L) == real \o [i \in 1 .. (L - Len(real)) |-> PadIndex]

PaddedRows(L) == {PadTo(r, L) : r \in UNION {[1 .. n -> RealTokens] : n \in 0 .. L}}

\* Every batch of 1 .. MaxBatch right-padded rows of one padded length 0 .. MaxSeqLen.
Batches == UNION {[1 .. B -> PaddedRows(L)] : B \in 1 .. MaxBatch, L \in 0 .. MaxSeqLen}

\* Number of real (non-padding) tokens of a row.
RealLen(row) == Cardinality({i \in DOMAIN row : row[i] # PadIndex})

\* --------------------------------------------------- ProgramPrior.forward
\* (tokens != self._pad_index), as 0/1.
NotPadMask(tokens) ==
    [b \in DOMAIN tokens |->
        [i \in DOMAIN tokens[b] |-> IF tokens[b][i] # PadIndex THEN 1 ELSE 0]]

\* Mutant: the end token written to one fixed column, the last one, in every row.
AddBoundaryAtLastColumn(tensor, mask, begin, end) ==
    LET L == Len(tensor[1])
        copied == [b \in DOMAIN tensor |->
                     [i \in 1 .. L + 2 |->
                        IF i >= 2 /\ i <= L + 1 THEN tensor[b][i - 1] ELSE 0]]
    IN  [b \in DOMAIN tensor |-> [copied[b] EXCEPT ![1] = begin, ![L + 2] = end]]

\* allennlp.nn.util.add_sentence_boundary_token_ids for a 2-D tensor: a new tensor
\* of zeros two columns wider, the input copied to columns 1 .. L, the begin token
\* in column 0 and the end token in column (sum of the row's mask) + 1.
AddSentenceBoundaryTokenIds(tensor, mask, begin, end) ==
    LET L == Len(tensor[1])
        sequence_lengths == [b \in DOMAIN tensor |-> SumSeq(mask[b])]
        copied == [b \in DOMAIN tensor |->
                     [i \in 1 .. L + 2 |->
                        IF i >= 2 /\ i <= L + 1 THEN tensor[b][i - 1] ELSE 0]]
        begun == [b \in DOMAIN tensor |-> [copied[b] EXCEPT ![1] = begin]]
    IN  [b \in DOMAIN tensor |-> [begun[b] EXCEPT ![sequence_lengths[b] + 2] = end]]

\* program_tokens_mask[:, 1:].sum(-1)
ProgramLengths(mask) == [b \in DOMAIN mask |-> SumSeq(DropFirst(mask[b]))]

\* A code of the tokens at positions 0 .. i - 1 of a row (what a unidirectional
\* LSTM has read when it emits its state at position i - 1).
RECURSIVE PrefixCode(_, _)
PrefixCode(row, i) == IF i = 0 THEN 0 ELSE i * row[i] + PrefixCode(row, i - 1)

\* Embedder, masked LSTM encoder, projection and tied output layer: the logits at
\* one position are some function of the parameters and of the tokens read so far;
\* the masked encoder emits zeros at padded positions and no layer has a bias, so
\* the logits there are all zero.
RowLogits(th, row, maskrow) ==
    [i \in DOMAIN row |->
        IF maskrow[i] = 0 THEN [v \in Vocab |-> 0]
        ELSE LET code == th + PrefixCode(row, i)
             IN  [v \in Vocab |-> (code + v * i) % LogitLevels]]

OutputLogits(th, tokens, mask) ==
    [b \in DOMAIN tokens |-> RowLogits(th, tokens[b], mask[b])]

\* F.softmax over the vocabulary, unnormalised: every class keeps a positive mass.
Softmax(logits) == [v \in DOMAIN logits |-> Pow2(logits[v])]

\* Mutant: the padding class keeps its probability mass.
ZeroStartAndUnknownOnly(probs) ==
    [v \in DOMAIN probs |-> IF v \in {StartIndex, UnkIndex} THEN 0 ELSE probs[v]]

\* output_class_probabilities[:, :, index] = 0 for start, padding and unknown.
ZeroIllegalTokens(probs) ==
    [v \in DOMAIN probs |-> IF v \in {StartIndex, PadIndex, UnkIndex} THEN 0 ELSE probs[v]]

\* torch.multinomial(probs, 1) for one distribution: some class of positive mass,
\* which one being decided by the generator state r.
Multinomial(probs, r) ==
    LET support == {v \in DOMAIN probs : probs[v] > 0}
    IN  Nth(support, r % Cardinality(support))

\* torch.stack of the per-row samples: one sample for each of the L + 2 positions.
SamplePredictions(logits, r) ==
    [b \in DOMAIN logits |->
        [i \in DOMAIN logits[b] |->
            Multinomial(ZeroIllegalTokens(Softmax(logits[b][i])),
                        r + (b - 1) * Len(logits[b]) + (i - 1))]]

\* predictions[:, :-1] * program_tokens_mask[:, 1:]
MaskPredictions(predictions, mask) ==
    [b \in DOMAIN predictions |->
        LET sampled == DropLast(predictions[b])
            shifted == DropFirst(mask[b])
        IN  [i \in DOMAIN sampled |-> sampled[i] * shifted[i]]]

\* The three tensors handed to sequence_cross_entropy_with_logits.
LossLogits(logits) == [b \in DOMAIN logits |-> DropLast(logits[b])]
LossTargets(tokens) == [b \in DOMAIN tokens |-> DropFirst(tokens[b])]
\* Mutant: the mask handed over unshifted.
LossWeightsUnshifted(mask) == [b \in DOMAIN mask |-> DropLast(mask[b])]
LossWeights(mask) == [b \in DOMAIN mask |-> DropFirst(mask[b])]

\* - log_softmax(logits)[target], as a positive integer cost that grows as the
\* target's logit falls below the largest one.
NegativeLogLikelihood(logits, target) ==
    1 + MaxOf({logits[v] : v \in DOMAIN logits}) - logits[target]

\* allennlp.nn.util.sequence_cross_entropy_with_logits(..., average=None):
\* per row, sum(nll * weights) / (sum(weights) + 1e-13).
SequenceCrossEntropyWithLogits(logits, targets, weights) ==
    [b \in DOMAIN logits |->
        LET nll == [i \in DOMAIN targets[b] |->
                      NegativeLogLikelihood(logits[b][i], targets[b][i]) * weights[b][i]]
            total_weight == SumSeq(weights[b])
        IN  IF total_weight = 0 THEN 0
            ELSE (SumSeq(nll) * LossScale) \div total_weight]

\* sequence_cross_entropy.mean().item()
BatchMean(loss) == SumSeq(loss) \div Len(loss)

\* The locals of forward at its return, for the argument `tokens`.
ForwardFrame(tokens, th, r) ==
    LET boundary == AddSentenceBoundaryTokenIds(tokens, NotPadMask(tokens),
                                                StartIndex, EndIndex)
        mask == NotPadMask(boundary)
        logits == OutputLogits(th, boundary, mask)
        sampled == SamplePredictions(logits, r)
        targets == LossTargets(boundary)
        weights == LossWeights(mask)
    IN  [batch_size |-> Len(tokens),
         program_tokens |-> boundary,
         program_tokens_mask |-> mask,
         program_lengths |-> ProgramLengths(mask),
         predictions |-> MaskPredictions(sampled, mask),
         sequence_cross_entropy |->
            SequenceCrossEntropyWithLogits(LossLogits(logits), targets, weights),
         loss_targets |-> targets,
         loss_weights |-> weights]

\* The batches of the object's life: full shape, the rows of a batch one token
\* shorter each (down to none), from every real length of the first row.
LifecycleRow(n) == PadTo([i \in 1 .. n |-> Nth(RealTokens, 0)], MaxSeqLen)
LifecycleBatches ==
    {[b \in 1 .. MaxBatch |-> LifecycleRow(IF n >= b THEN n - (b - 1) ELSE 0)] :
        n \in 0 .. MaxSeqLen}

\* forward is a function of its argument, the parameters and the generator state.
\* Its frames on the batches that are fed again and again are tabulated once
\* (@@ makes the table an explicit function).
LifecycleFrames ==
    [tokens \in LifecycleBatches, th \in 0 .. NumTheta - 1, r \in 0 .. NumRng - 1 |->
        ForwardFrame(tokens, th, r)] @@ <<>>

Frame(tokens, th, r) ==
    IF tokens \in LifecycleBatches THEN LifecycleFrames[tokens, th, r]
    ELSE ForwardFrame(tokens, th, r)

\* Number of draws forward takes from the generator.
Draws(tokens) == Len(tokens) * (Len(tokens[1]) + 2)

\* allennlp.training.metrics.Average.__call__
AverageCall(total, count, value) == [total |-> total + value, count |-> count + 1]

\* Mutant: the metric recorded in training mode too.
RecordMetricsInEveryMode(is_training, total, count, value) ==
    AverageCall(total, count, value)

\* The metric update at the end of forward.
RecordMetrics(is_training, total, count, value) ==
    IF ~is_training THEN AverageCall(total, count, value)
    ELSE [total |-> total, count |-> count]

NoFrame == [batch_size |-> 0]
NoOutput == [predictions |-> <<>>, loss |-> <<>>]
NoMetrics == [status |-> "none"]

Forward(tokens) ==
    LET f == Frame(tokens, theta, rng)
        mean == BatchMean(f.sequence_cross_entropy)
        acc == RecordMetrics(training, log2_total, log2_count, mean)
    IN  /\ (~training) => log2_count < MaxEvalCalls
        /\ program_tokens' = tokens
        /\ frame' = f
        /\ output' = [predictions |-> f.predictions, loss |-> f.sequence_cross_entropy]
        /\ rng' = (rng + Draws(tokens)) % NumRng
        /\ log2_total' = acc.total
        /\ log2_count' = acc.count
        /\ eval_total' = IF training THEN eval_total ELSE eval_total + mean
        /\ eval_count' = IF training THEN eval_count ELSE eval_count + 1
        /\ metrics' = NoMetrics
        /\ read_total' = 0
        /\ read_count' = 0
        /\ pc' = "forward"
        /\ prev_op' = pc
        /\ UNCHANGED <<theta, training, tyingVars, moduleVars>>

\* Mutant: the division by the count left unguarded, failing on an empty average.
AverageGetMetricUnguarded(total, count) ==
    IF count > 0 THEN [status |-> "ok", value |-> <<total, count>>]
    ELSE [status |-> "error"]

\* Average.get_metric(reset): the running mean, 0 when nothing was recorded.  The
\* mean is kept as the fraction <<numerator, denominator>> of fixed-point units.
AverageGetMetric(total, count) ==
    IF count > 0 THEN [status |-> "ok", value |-> <<total, count>>]
    ELSE [status |-> "ok", value |-> <<0, 1>>]

\* 2 ** average: kept symbolic as base 2 and the exponent's fraction; a failed
\* read of the average propagates.
GetMetricsResult(total, count) ==
    LET average == AverageGetMetric(total, count)
    IN  IF average.status = "ok"
        THEN [status |-> "ok", perplexity |-> [base |-> 2, exponent |-> average.value]]
        ELSE [status |-> "error"]

GetMetrics ==
    /\ metrics' = GetMetricsResult(log2_total, log2_count)
    /\ log2_total' = 0
    /\ log2_count' = 0
    /\ eval_total' = 0
    /\ eval_count' = 0
    /\ read_total' = eval_total
    /\ read_count' = eval_count
    /\ program_tokens' = <<>>
    /\ frame' = NoFrame
    /\ output' = NoOutput
    /\ pc' = "get_metrics"
    /\ prev_op' = pc
    /\ UNCHANGED <<theta, rng, training, tyingVars, moduleVars>>

\* nn.Module.train(mode) / nn.Module.eval()
Train(mode) ==
    /\ training' = mode
    /\ UNCHANGED <<pc, program_tokens, theta, rng, frame, output,
                   log2_total, log2_count, metrics, prev_op, eval_total, eval_count,
                   read_total, read_count, tyingVars, moduleVars>>

\* ------------------------------------- weight tying in ProgramPrior.__init__
TableRows == 0 .. VocabSize - 1
TableCols == 0 .. InputSize - 1
WeightValues == 0 .. WeightLevels - 1

\* Embedding(vocab_size, input_size, padding_index): a freshly initialised table
\* whose padding row is filled with zeros.
NewEmbeddingWeight(seed) ==
    [i \in TableRows |-> [j \in TableCols |->
        IF i = PadIndex THEN 0 ELSE (seed + i + j) % WeightLevels]]

\* nn.Linear(input_size, vocab_size, bias=False): its own freshly initialised
\* weight of shape (vocab_size, input_size).
NewLinearWeight(seed) ==
    [i \in TableRows |-> [j \in TableCols |-> (seed + 1 + i * (j + 1)) % WeightLevels]]

EmbedderTensor == 1
LinearTensor == 2

\* Mutant: the output layer keeps the tensor nn.Linear allocated for it.
KeepLinearWeight(embedder_ref, linear_ref) == linear_ref

\* self._output_layer.weight = embedder_inner.weight
TieWeights(embedder_ref, linear_ref) == embedder_ref

\* The tensors and the two references after __init__.
Constructed(seed) ==
    [tensors |-> (EmbedderTensor :> NewEmbeddingWeight(seed))
                 @@ (LinearTensor :> NewLinearWeight(seed)),
     embedder_weight |-> EmbedderTensor,
     output_weight |-> TieWeights(EmbedderTensor, LinearTensor)]

\* What each of the two roles reads.
EmbeddingTable == tensors[embedder_weight]
OutputLayerWeight == tensors[output_weight]

\* An in-place update of one entry of the tensor behind a reference.
WriteInPlace(role, ref, i, j, v) ==
    /\ updates < MaxUpdates
    /\ tensors' = [tensors EXCEPT ![ref][i][j] = v]
    /\ last_write' = [role |-> role, row |-> i, col |-> j, value |-> v]
    /\ updates' = updates + 1
    /\ UNCHANGED <<embedder_weight, output_weight, priorVars, moduleVars>>

UpdateEmbedding(i, j, v) == WriteInPlace("embedding", embedder_weight, i, j, v)
UpdateOutputLayer(i, j, v) == WriteInPlace("output_layer", output_weight, i, j, v)

NoWrite == [role |-> "none"]

\* ----------------------------------------------------- elementary modules
\* A 4-D tensor (batch, channels, height, width) is a function of a batch index
\* 1 .. B, a channel 1 .. C, a row 0 .. H - 1 and a column 0 .. W - 1.
BatchOf(x) == DOMAIN x
ChannelsOf(x) == DOMAIN x[1]
HeightOf(x) == Cardinality(DOMAIN x[1][1])
WidthOf(x) == Cardinality(DOMAIN x[1][1][0])
RowsOf(x) == 0 .. HeightOf(x) - 1
ColsOf(x) == 0 .. WidthOf(x) - 1

Tensor4(B, C, H, W, Value(_, _, _, _)) ==
    [b \in 1 .. B |-> [c \in 1 .. C |-> [i \in 0 .. H - 1 |-> [j \in 0 .. W - 1 |->
        Value(b, c, i, j)]]]]

\* A tensor of the shape of x computed entry by entry.
Like(x, Value(_, _, _, _)) ==
    [b \in BatchOf(x) |-> [c \in ChannelsOf(x) |-> [i \in RowsOf(x) |-> [j \in ColsOf(x) |->
        Value(b, c, i, j)]]]]

RECURSIVE SumOver(_, _)
SumOver(f, S) ==
    IF S = {} THEN 0
    ELSE LET x == CHOOSE y \in S : TRUE IN f[x] + SumOver(f, S \ {x})

MinOf2(a, b) == IF a <= b THEN a ELSE b
MaxOf2(a, b) == IF a >= b THEN a ELSE b

\* torch.min(attn1, attn2), torch.max(attn1, attn2): elementwise, a new tensor.
TorchMin(x, y) == Like(x, LAMBDA b, c, i, j : MinOf2(x[b][c][i][j], y[b][c][i][j]))
TorchMax(x, y) == Like(x, LAMBDA b, c, i, j : MaxOf2(x[b][c][i][j], y[b][c][i][j]))

\* What a forward call hands back: its value, and its argument tensors as they
\* are after the call.
Returned4(values, a) == [status |-> "ok", values |-> values, args |-> a]
Raised(a) == [status |-> "error", args |-> a]

\* Mutant: the minimum replaced by the maximum.
AndModuleAsMax(a) == Returned4(TorchMax(a.attn, a.attn2), a)

\* AndModule.forward(attn1, attn2)
AndModule(a) == Returned4(TorchMin(a.attn, a.attn2), a)

\* OrModule.forward(attn1, attn2)
OrModule(a) == Returned4(TorchMax(a.attn, a.attn2), a)

\* The convolution parameters: kaiming-normal weights and the default biases are
\* random at construction; their values are some function of a seed.
ConvWeight(seed, layer, o, c, ky, kx) ==
    ((seed + layer + o + 2 * c + 3 * ky + 5 * kx) % 3) - 1
ConvBias(seed, layer, o) == (seed + layer + o) % 2

\* nn.Conv2d(in, out, kernel_size=k, padding=pad, dilation=dil), stride 1, on x:
\* zero padding, an output of x's height and width.
Conv2d(seed, layer, x, out_channels, k, pad, dil) ==
    LET taps == ChannelsOf(x) \X (0 .. k - 1) \X (0 .. k - 1)
        term(b, o, i, j) ==
            [t \in taps |->
                LET y == i + dil * t[2] - pad
                    z == j + dil * t[3] - pad
                IN  IF y \in RowsOf(x) /\ z \in ColsOf(x)
                    THEN ConvWeight(seed, layer, o, t[1], t[2], t[3]) * x[b][t[1]][y][z]
                    ELSE 0]
    IN  [b \in BatchOf(x) |-> [o \in 1 .. out_channels |->
            [i \in RowsOf(x) |-> [j \in ColsOf(x) |->
                ConvBias(seed, layer, o) + SumOver(term(b, o, i, j), taps)]]]]

\* F.relu
Relu(x) == Like(x, LAMBDA b, c, i, j : MaxOf2(0, x[b][c][i][j]))

\* torch.sigmoid: strictly increasing; a value is kept as its argument, tagged.
Sigmoid(x) == Like(x, LAMBDA b, c, i, j : [sigmoid |-> x[b][c][i][j]])

\* torch.mul(feats, attn.repeat(1, self.dim, 1, 1))
Attend(feats, attn) == Like(feats, LAMBDA b, c, i, j : feats[b][c][i][j] * attn[b][1][i][j])

\* torch.cat([x, y], 1)
CatChannels(x, y) ==
    LET cx == Cardinality(ChannelsOf(x))
    IN  [b \in BatchOf(x) |-> [c \in 1 .. cx + Cardinality(ChannelsOf(y)) |->
            IF c <= cx THEN x[b][c] ELSE y[b][c - cx]]]

\* AttentionModule.forward(feats, attn)
AttentionModule(seed, a) ==
    LET attended_feats == Attend(a.feats, a.attn)
        out1 == Relu(Conv2d(seed, 1, attended_feats, Dim, 3, 1, 1))
        out2 == Relu(Conv2d(seed, 2, out1, Dim, 3, 1, 1))
    IN  Returned4(Sigmoid(Conv2d(seed, 3, out2, 1, 1, 0, 1)), a)

\* QueryModule.forward(feats, attn)
QueryModule(seed, a) ==
    LET attended_feats == Attend(a.feats, a.attn)
        out1 == Relu(Conv2d(seed, 1, attended_feats, Dim, 3, 1, 1))
    IN  Returned4(Relu(Conv2d(seed, 2, out1, Dim, 3, 1, 1)), a)

\* RelateModule.forward(feats, attn)
RelateModule(seed, a) ==
    LET feats == Attend(a.feats, a.attn)
        out1 == Relu(Conv2d(seed, 1, feats, Dim, 3, 1, 1))
        out2 == Relu(Conv2d(seed, 2, out1, Dim, 3, 2, 2))
        out3 == Relu(Conv2d(seed, 3, out2, Dim, 3, 4, 4))
        out4 == Relu(Conv2d(seed, 4, out3, Dim, 3, 8, 8))
        out5 == Relu(Conv2d(seed, 5, out4, Dim, 3, 1, 1))
    IN  Returned4(Sigmoid(Conv2d(seed, 6, out5, 1, 1, 0, 1)), a)

\* F.max_pool2d(attn, size, return_indices=True)[1][b, 0, 0, 0]: the flat index
\* (row * width + column) of the first largest entry of the window of rows and
\* columns 0 .. size - 1 of batch element b.
MaxPoolIndex(attn, b, size) ==
    LET W == WidthOf(attn)
        window == {i * W + j : i \in 0 .. size - 1, j \in 0 .. size - 1}
        value(p) == attn[b][1][p \div W][p % W]
    IN  CHOOSE p \in window :
            \A q \in window : value(q) < value(p) \/ (value(q) = value(p) /\ p <= q)

\* SameModule.forward(feats, attn).  The pooling fails on a map narrower than it
\* is high, index_select on a row index past the last row, and torch.mul on a
\* feature map that the (size x size) repeated reference cannot be broadcast to.
SameModule(seed, a) ==
    LET size == HeightOf(a.attn)
        W == WidthOf(a.attn)
    IN  IF W < size THEN Raised(a)
        ELSE
        LET the_idx == MaxPoolIndex(a.attn, 1, size)
            row == the_idx \div size
            col == the_idx % size
        IN  IF row >= HeightOf(a.feats) \/ col >= WidthOf(a.feats) THEN Raised(a)
            ELSE IF W # size /\ size # 1 THEN Raised(a)
            ELSE
            LET attended_feats == [b \in BatchOf(a.feats) |-> [c \in ChannelsOf(a.feats) |->
                                      a.feats[b][c][row][col]]]
                x == Like(a.feats, LAMBDA b, c, i, j : a.feats[b][c][i][j] * attended_feats[b][c])
                joined == CatChannels(x, a.attn)
            IN  [status |-> "ok",
                 values |-> Sigmoid(Conv2d(seed, 1, joined, 1, 1, 0, 1)),
                 args |-> a,
                 row |-> row, col |-> col, attended_feats |-> attended_feats]

\* ComparisonModule.forward(in1, in2)
ComparisonModule(seed, a) ==
    LET joined == CatChannels(a.feats, a.feats2)
        out1 == Relu(Conv2d(seed, 1, joined, Dim, 1, 0, 1))
        out2 == Relu(Conv2d(seed, 2, out1, Dim, 3, 1, 1))
    IN  Returned4(Relu(Conv2d(seed, 3, out2, Dim, 3, 1, 1)), a)

\* Flatten.forward(x): x.view(x.size(0), -1), the entries of one batch element in
\* row-major order of (channel, row, column).
Flatten(a) ==
    LET x == a.feats
        H == HeightOf(x)
        W == WidthOf(x)
        n == Cardinality(ChannelsOf(x)) * H * W
    IN  Returned4([b \in BatchOf(x) |-> [k \in 1 .. n |->
            x[b][((k - 1) \div (H * W)) + 1][((k - 1) % (H * W)) \div W][(k - 1) % W]]], a)

ModuleNames == {"and", "or", "attention", "query", "relate", "same", "comparison", "flatten"}

ModuleForward(name, seed, a) ==
    CASE name = "and" -> AndModule(a)
      [] name = "or" -> OrModule(a)
      [] name = "attention" -> AttentionModule(seed, a)
      [] name = "query" -> QueryModule(seed, a)
      [] name = "relate" -> RelateModule(seed, a)
      [] name = "same" -> SameModule(seed, a)
      [] name = "comparison" -> ComparisonModule(seed, a)
      [] name = "flatten" -> Flatten(a)

\* One forward call of a module on the caller's tensors, and the same call on the
\* second set of tensors.
Call(name) ==
    /\ module = "none"
    /\ module' = name
    /\ result' = ModuleForward(name, wseed, given)
    /\ args' = ModuleForward(name, wseed, given).args
    /\ result_alt' = ModuleForward(name, wseed, given_alt)
    /\ UNCHANGED <<wseed, given, given_alt, priorVars, tyingVars>>

CallAnd == Call("and")
CallOr == Call("or")
CallAttention == Call("attention")
CallQuery == Call("query")
CallRelate == Call("relate")
CallSame == Call("same")
CallComparison == Call("comparison")
CallFlatten == Call("flatten")

\* ---- the tensors the modules are called on ----
\* An attention mask (B, 1, H, W) with values k / AttnScale, k = 0 .. AttnScale:
\* `hi` at one position, `lo` elsewhere; the position moves by `shift` from one
\* batch element to the next.
AttentionMask(B, H, W, p, hi, lo, shift) ==
    Tensor4(B, 1, H, W,
            LAMBDA b, c, i, j : IF i * W + j = (p + (b - 1) * shift) % (H * W) THEN hi ELSE lo)

AttentionMasks(B, H, W) ==
    {AttentionMask(B, H, W, p, hi, lo, shift) :
        p \in 0 .. H * W - 1, hi \in 0 .. AttnScale, lo \in 0 .. AttnScale, shift \in 0 .. 1}

\* Those with one largest entry per batch element.
PeakedMasks(B, H, W) ==
    UNION {{AttentionMask(B, H, W, p, hi, lo, shift) :
                p \in 0 .. H * W - 1, lo \in 0 .. hi - 1, shift \in 0 .. 1} :
           hi \in 1 .. AttnScale}

\* A feature map (B, Dim, H, W) whose entries differ from position to position.
FeatureMap(B, H, W, k) ==
    Tensor4(B, Dim, H, W, LAMBDA b, c, i, j : k + b + c + i * W + j)

Shapes == (1 .. MaxBatch) \X (1 .. MaxHeight) \X (1 .. MaxWidth)

\* x with batch element b replaced by that element of y.
WithElement(x, b, y) == [x EXCEPT ![b] = y[b]]

NoResult == [status |-> "none"]
NoTensor == <<>>
NoArgs == [feats |-> NoTensor, feats2 |-> NoTensor, attn |-> NoTensor, attn2 |-> NoTensor]

\* ------------------------------------------------------ specifications
\* State after ProgramPrior.__init__ : a fresh Average.
PriorConstructed ==
    /\ pc = "ready"
    /\ program_tokens = <<>>
    /\ frame = NoFrame
    /\ output = NoOutput
    /\ metrics = NoMetrics
    /\ log2_total = 0
    /\ log2_count = 0
    /\ prev_op = "ready"
    /\ eval_total = 0
    /\ eval_count = 0
    /\ read_total = 0
    /\ read_count = 0

\* The weight tensors after ProgramPrior.__init__ , initialised from `seed`.
WeightsConstructed(seed) ==
    /\ tensors = Constructed(seed).tensors
    /\ embedder_weight = Constructed(seed).embedder_weight
    /\ output_weight = Constructed(seed).output_weight
    /\ last_write = NoWrite
    /\ updates = 0

\* No module has been called.
NoModuleCalled ==
    /\ module = "none"
    /\ args = NoArgs
    /\ result = NoResult
    /\ result_alt = NoResult

ModulesIdle ==
    /\ NoModuleCalled
    /\ wseed = 0
    /\ given = NoArgs
    /\ given_alt = NoArgs

PriorIdle ==
    /\ PriorConstructed
    /\ rng = 0
    /\ training = TRUE

\* ---- SpecForward: one forward call, on every batch, parameter value and
\* generator state.
InitForward ==
    /\ pc = "ready"
    /\ program_tokens \in Batches
    /\ frame = NoFrame
    /\ output = NoOutput
    /\ metrics = NoMetrics
    /\ log2_total = 0
    /\ log2_count = 0
    /\ prev_op = "ready"
    /\ eval_total = 0
    /\ eval_count = 0
    /\ read_total = 0
    /\ read_count = 0
    /\ theta \in 0 .. NumTheta - 1
    /\ rng \in 0 .. NumRng - 1
    /\ training = TRUE
    /\ WeightsConstructed(0)
    /\ ModulesIdle

CallForward == pc = "ready" /\ Forward(program_tokens)

NextForward == CallForward

SpecForward == InitForward /\ [][NextForward]_vars

\* ---- SpecMetrics: the life of one ProgramPrior object: forward calls in either
\* mode, mode switches and metric reads, in any order.  nn.Module starts in
\* training mode.
InitMetrics ==
    /\ PriorConstructed
    /\ theta \in 0 .. NumTheta - 1
    /\ rng = 0
    /\ training = TRUE
    /\ WeightsConstructed(0)
    /\ ModulesIdle

NextMetrics ==
    \/ \E tokens \in LifecycleBatches : Forward(tokens)
    \/ GetMetrics
    \/ \E mode \in BOOLEAN : Train(mode)

SpecMetrics == InitMetrics /\ [][NextMetrics]_vars

\* ---- SpecTying: in-place updates of the embedding table and of the output
\* layer's weight (an optimizer's steps), in any order.
InitTying ==
    /\ theta \in 0 .. NumTheta - 1
    /\ WeightsConstructed(theta)
    /\ PriorIdle
    /\ ModulesIdle

NextTying ==
    \/ \E i \in TableRows, j \in TableCols, v \in WeightValues : UpdateEmbedding(i, j, v)
    \/ \E i \in TableRows, j \in TableCols, v \in WeightValues : UpdateOutputLayer(i, j, v)

SpecTying == InitTying /\ [][NextTying]_vars

\* ---- SpecLogic: AndModule and OrModule on every pair of attention masks of one
\* shape.
InitLogic ==
    /\ \E shape \in Shapes :
          \E a1, a2 \in AttentionMasks(shape[1], shape[2], shape[3]) :
              given = [feats |-> NoTensor, feats2 |-> NoTensor, attn |-> a1, attn2 |-> a2]
    /\ given_alt = given
    /\ wseed = 0
    /\ NoModuleCalled
    /\ PriorIdle
    /\ theta = 0
    /\ WeightsConstructed(0)

NextLogic == CallAnd \/ CallOr

SpecLogic == InitLogic /\ [][NextLogic]_vars

\* ---- SpecModules: every module on feature maps and single-peaked attention
\* masks of every shape, and on a second set of tensors that differs from the
\* first in at most one batch element (its attention, or its features).
InitModules ==
    /\ \E shape \in Shapes :
          LET B == shape[1]
              H == shape[2]
              W == shape[3]
          IN  \E a1 \in PeakedMasks(B, H, W), k \in 0 .. NumFeatureMaps - 1,
                 q \in {0, H * W - 1} :
                /\ given = [feats |-> FeatureMap(B, H, W, k),
                            feats2 |-> FeatureMap(B, H, W, k + 1),
                            attn |-> a1,
                            attn2 |-> AttentionMask(B, H, W, q, AttnScale, 0, 0)]
                /\ \E b \in 1 .. B :
                      \/ \E a \in PeakedMasks(B, H, W) :
                            given_alt = [given EXCEPT !.attn = WithElement(@, b, a)]
                      \/ \E k2 \in 0 .. NumFeatureMaps - 1 :
                            given_alt = [given EXCEPT
                                            !.feats = WithElement(@, b, FeatureMap(B, H, W, k2))]
    /\ wseed \in 0 .. NumWeightSeeds - 1
    /\ NoModuleCalled
    /\ PriorIdle
    /\ theta = 0
    /\ WeightsConstructed(0)

NextModules ==
    \/ CallAnd
    \/ CallOr
    \/ CallAttention
    \/ CallQuery
    \/ CallRelate
    \/ CallSame
    \/ CallComparison
    \/ CallFlatten

SpecModules == InitModules /\ [][NextModules]_vars

\* ================================================================ claims
\* ---- ProgramPrior.forward, under SpecForward ----
Returned == pc = "forward"
BatchRows == DOMAIN program_tokens
PaddedLen == Len(program_tokens[1])
IllegalTokens == {StartIndex, PadIndex, UnkIndex}

\* C3 as stated: no entry of the returned predictions, at any batch element and
\* any time step, is the start, the padding or the unknown index.
C3_NoIllegalTokenAnywhere ==
    Returned =>
        \A b \in BatchRows : \A i \in DOMAIN output.predictions[b] :
            output.predictions[b][i] \notin IllegalTokens

\* C3 amended: an entry of predictions whose target (the next token of the
\* boundary-augmented row) is not padding is never the start, padding or unknown
\* index; an entry whose target is padding is 0.
C3_NoIllegalTokenAtRealSteps ==
    Returned =>
        \A b \in BatchRows : \A i \in DOMAIN output.predictions[b] :
            IF frame.program_tokens[b][i + 1] # PadIndex
            THEN output.predictions[b][i] \notin IllegalTokens
            ELSE output.predictions[b][i] = 0

\* A batch whose rows have different real lengths was fed, so predictions hold
\* both sampled steps and steps after a shorter row's end token.
C3_Witness ==
    /\ Returned
    /\ \E b \in BatchRows : \E i, j \in DOMAIN output.predictions[b] :
          /\ frame.program_tokens[b][i + 1] # PadIndex
          /\ output.predictions[b][i] \in RealTokens
          /\ frame.program_tokens[b][j + 1] = PadIndex
    /\ \E b1, b2 \in BatchRows : RealLen(program_tokens[b1]) # RealLen(program_tokens[b2])

\* C6 as stated: for an input of shape (batch, seq_len), seq_len >= 1, the loss
\* has shape (batch,) and the predictions have shape (batch, seq_len - 1).
C6_OutputShapes ==
    (Returned /\ PaddedLen >= 1) =>
        /\ Len(output.loss) = Len(program_tokens)
        /\ Len(output.predictions) = Len(program_tokens)
        /\ \A b \in BatchRows : Len(output.predictions[b]) = PaddedLen - 1

\* C7: a right-padded row of padded length L with n real tokens becomes a row of
\* length L + 2: start token, the n tokens unchanged, the end token right after
\* them, padding in every later position; each row of a batch by its own n.
C7_BoundaryPerSequence ==
    Returned =>
        \A b \in BatchRows :
            LET row == program_tokens[b]
                n == RealLen(row)
                aug == frame.program_tokens[b]
            IN  /\ Len(aug) = PaddedLen + 2
                /\ aug[1] = StartIndex
                /\ \A i \in 1 .. n : aug[i + 1] = row[i]
                /\ aug[n + 2] = EndIndex
                /\ \A i \in n + 3 .. PaddedLen + 2 : aug[i] = PadIndex

\* Two rows of one batch with different numbers of real tokens, one of them empty.
C7_Witness ==
    /\ Returned
    /\ \E b1, b2 \in BatchRows :
          /\ RealLen(program_tokens[b1]) = 0
          /\ RealLen(program_tokens[b2]) = PaddedLen
          /\ PaddedLen >= 2
          /\ frame.program_tokens[b1][2] = EndIndex
          /\ frame.program_tokens[b2][PaddedLen + 2] = EndIndex

\* The loss of one row as the claim words it: the logits at augmented position t
\* against the augmented token at t + 1, over the n real tokens and the end token.
ExpectedNll(b, n) ==
    LET aug == frame.program_tokens[b]
        logits == RowLogits(theta, aug, frame.program_tokens_mask[b])
    IN  SumSeq([t \in 1 .. n + 1 |-> NegativeLogLikelihood(logits[t], aug[t + 1])])

\* C10: the logits at augmented position t are scored against the token at t + 1,
\* t = 0 .. L, with weight 1 exactly when that token is not padding: exactly the
\* n real tokens and the end token are weighted, position 0 (the start token) is
\* no target, and the number of weighted targets is the computed program length.
C10_LossAlignment ==
    Returned =>
        \A b \in BatchRows :
            LET n == RealLen(program_tokens[b])
                aug == frame.program_tokens[b]
                targets == frame.loss_targets[b]
                weights == frame.loss_weights[b]
            IN  /\ Len(targets) = PaddedLen + 1
                /\ Len(weights) = PaddedLen + 1
                /\ \A t \in 0 .. PaddedLen :
                      /\ targets[t + 1] = aug[t + 2]
                      /\ weights[t + 1] = (IF aug[t + 2] # PadIndex THEN 1 ELSE 0)
                /\ {t \in 0 .. PaddedLen : weights[t + 1] = 1} = 0 .. n
                /\ SumSeq(weights) = n + 1
                /\ frame.program_lengths[b] = SumSeq(weights)
                /\ output.loss[b] * (n + 1) = LossScale * ExpectedNll(b, n)

\* A batch with a short and a longer row, so positions after an end token exist.
C10_Witness ==
    /\ Returned
    /\ \E b1, b2 \in BatchRows :
          /\ RealLen(program_tokens[b1]) = 1
          /\ RealLen(program_tokens[b2]) = 2
          /\ frame.loss_weights[b1] # frame.loss_weights[b2]
          /\ output.loss[b1] > 0

\* ---- the perplexity accumulator, under SpecMetrics ----
\* C4 as stated: a read of the metrics while the accumulator holds no data (right
\* after another read, or before any evaluation-mode forward) fails.
C4_EmptyReadFails ==
    (pc = "get_metrics" /\ read_count = 0) => metrics.status = "error"

\* C4 amended: such a read returns the ordinary perplexity 2 ** 0 = 1 and leaves
\* the accumulator empty.
C4_EmptyReadReturnsOne ==
    (pc = "get_metrics" /\ read_count = 0) =>
        /\ metrics = [status |-> "ok", perplexity |-> [base |-> 2, exponent |-> <<0, 1>>]]
        /\ log2_count = 0

\* A read that immediately follows another read.
C4_Witness ==
    /\ pc = "get_metrics"
    /\ prev_op = "get_metrics"
    /\ read_count = 0
    /\ metrics.status = "ok"

\* C5: the accumulator holds exactly the batch-mean losses of the evaluation-mode
\* forward calls since the last read (training-mode calls add nothing), a read
\* empties it and reports 2 ** (mean of exactly those values).
C5_AccumulatorLifecycle ==
    /\ log2_total = eval_total
    /\ log2_count = eval_count
    /\ pc = "get_metrics" => (log2_total = 0 /\ log2_count = 0)
    /\ (pc = "get_metrics" /\ read_count > 0) =>
          metrics = [status |-> "ok",
                     perplexity |-> [base |-> 2, exponent |-> <<read_total, read_count>>]]

\* A read of two accumulated values, made in evaluation mode after an earlier read.
C5_Witness ==
    /\ pc = "get_metrics"
    /\ prev_op = "forward"
    /\ read_count >= 2
    /\ read_total > 0
    /\ ~training

\* ---- weight tying, under SpecTying ----
\* C8: the output layer's weight and the embedding table are one tensor after
\* construction and after every in-place update through either of them: an
\* entry written through one role is read back through the other.
C8_WeightTying ==
    /\ output_weight = embedder_weight
    /\ OutputLayerWeight = EmbeddingTable
    /\ last_write.role # "none" =>
          /\ EmbeddingTable[last_write.row][last_write.col] = last_write.value
          /\ OutputLayerWeight[last_write.row][last_write.col] = last_write.value

\* After an update through the embedding, an update through the output layer has
\* changed a non-padding entry that the embedding now reads.
C8_Witness ==
    /\ updates >= 2
    /\ last_write.role = "output_layer"
    /\ last_write.row # PadIndex
    /\ EmbeddingTable[last_write.row][last_write.col] = last_write.value
    /\ EmbeddingTable[last_write.row][last_write.col]
          # NewEmbeddingWeight(theta)[last_write.row][last_write.col]

\* ---- the elementary modules, under SpecLogic and SpecModules ----
Positions(x) == BatchOf(x) \X ChannelsOf(x) \X RowsOf(x) \X ColsOf(x)
At(x, p) == x[p[1]][p[2]][p[3]][p[4]]
Constantly(x, v) == \A p \in Positions(x) : At(x, p) = v

\* C9: And returns the elementwise minimum and Or the elementwise maximum of two
\* masks of one shape (all 0.0 resp. all 1.0 for an all-1.0 and an all-0.0
\* mask), and the argument tensors are as they were passed.
C9_AndMinOrMax ==
    module \in {"and", "or"} =>
        /\ result.status = "ok"
        /\ args = given
        /\ Positions(result.values) = Positions(given.attn)
        /\ \A p \in Positions(given.attn) :
              LET x == At(given.attn, p)
                  y == At(given.attn2, p)
                  z == At(result.values, p)
              IN  /\ z \in {x, y}
                  /\ module = "and" => (z <= x /\ z <= y)
                  /\ module = "or" => (z >= x /\ z >= y)
        /\ (Constantly(given.attn, AttnScale) /\ Constantly(given.attn2, 0)) =>
              Constantly(result.values, IF module = "and" THEN 0 ELSE AttnScale)

\* And was called on an all-1.0 and an all-0.0 mask of more than one batch
\* element and more than one position, and returned all 0.0.
C9_Witness ==
    /\ module = "and"
    /\ Cardinality(Positions(given.attn)) >= 4
    /\ Cardinality(BatchOf(given.attn)) >= 2
    /\ Constantly(given.attn, AttnScale)
    /\ Constantly(given.attn2, 0)
    /\ Constantly(result.values, 0)

\* The attention of batch element b has exactly one largest entry, at (r, c).
UniqueMaxAt(attn, b, r, c) ==
    \A i \in RowsOf(attn), j \in ColsOf(attn) :
        (i # r \/ j # c) => attn[b][1][i][j] < attn[b][1][r][c]

\* C1 as stated: whenever the attention of every batch element has its one
\* largest entry at (r, c), on a map of any height and width, the reference vector
\* that SameModule multiplies the features by is feats[:, :, r, c].
C1_SameSelectsArgmax ==
    (module = "same" /\ result.status = "ok") =>
        \A r \in RowsOf(given.attn), c \in ColsOf(given.attn) :
            (\A b \in BatchOf(given.attn) : UniqueMaxAt(given.attn, b, r, c)) =>
                /\ result.row = r
                /\ result.col = c
                /\ result.attended_feats =
                      [b \in BatchOf(given.feats) |-> [ch \in ChannelsOf(given.feats) |->
                          given.feats[b][ch][r][c]]]

\* Batch element b of a call's arguments, and of what the call returned.
ArgsElement(a, b) ==
    [feats |-> a.feats[b], feats2 |-> a.feats2[b], attn |-> a.attn[b], attn2 |-> a.attn2[b]]
ResultElement(res, b) ==
    IF res.status = "ok" THEN [status |-> "ok", values |-> res.values[b]]
    ELSE [status |-> res.status, values |-> <<>>]

\* C2 as stated: for every module and every batch element b, two calls whose
\* arguments agree on element b return the same element b, whatever the other
\* batch elements hold.
C2_NoCrossBatchInteraction ==
    module # "none" =>
        \A b \in BatchOf(given.attn) :
            ArgsElement(given, b) = ArgsElement(given_alt, b) =>
                ResultElement(result, b) = ResultElement(result_alt, b)

====
